---- MODULE Spec2Model ----
(***************************************************************************)
(* A model of amv_tool's MongoValidator (src/mongo_validator.py): the      *)
(* dotted-path resolver, the per-rule-kind validators, validate_collection *)
(* and run_validations.                                                    *)
(*                                                                         *)
(* Python values are records [k, n, s, d]: k is the name of the value's    *)
(* class, n the number of an int, a float (n stands for the float n.0) or  *)
(* a bool (True is 1, False is 0), s the characters of a str or the        *)
(* one-character strings of a list, d the mapping of a dict (a function    *)
(* from key strings to values).  Error messages are records of the parts   *)
(* the f-strings interpolate.                                              *)
(***************************************************************************)
EXTENDS Integers, Sequences, FiniteSets, TLC

VARIABLES
    rules,        \* self.rules['collections'] as the sequence of its items
    db,           \* the data source: collection name -> sequence of documents
    pc,           \* position of run_validations / validate_collection
    idx,          \* index into rules of the collection being validated
    errors,       \* validate_collection's local error list
    actual_count, \* validate_collection's local actual_count
    sample_size,  \* validate_collection's local sample_size
    sample,       \* the documents of the cursor not yet iterated
    results,      \* run_validations' local results list
    summary,      \* the dict run_validations returns
    calls,        \* the data-source calls made so far: <<collection, operation>>
    args,         \* the arguments of a direct call of one function
    ret           \* what that call returned

progVars == <<rules, db, pc, idx, errors, actual_count, sample_size, sample,
              results, summary, calls>>
vars == <<rules, db, pc, idx, errors, actual_count, sample_size, sample,
          results, summary, calls, args, ret>>

-----------------------------------------------------------------------------
(* Python values *)

EmptyMap == [x \in {} |-> 0]

None == [k |-> "NoneType", n |-> 0, s |-> <<>>, d |-> EmptyMap]
VBool(b) == [k |-> "bool", n |-> IF b THEN 1 ELSE 0, s |-> <<>>, d |-> EmptyMap]
VInt(i) == [k |-> "int", n |-> i, s |-> <<>>, d |-> EmptyMap]
VFloat(i) == [k |-> "float", n |-> i, s |-> <<>>, d |-> EmptyMap]
VStr(chars) == [k |-> "str", n |-> 0, s |-> chars, d |-> EmptyMap]
VList(items) == [k |-> "list", n |-> 0, s |-> items, d |-> EmptyMap]
VDict(map) == [k |-> "dict", n |-> 0, s |-> <<>>, d |-> map]

\* dict.get(key, default) on a mapping
Get(map, key, default) == IF key \in DOMAIN map THEN map[key] ELSE default

\* the mappings from a subset of keys to vals
PartialMaps(keys, vals) == UNION {[S -> vals] : S \in SUBSET keys}

\* all sequences over S of length at most n
SeqsUpTo(S, n) == UNION {[1..m -> S] : m \in 0..n}

\* the sequences over S of length at most n without a repeated element
DistinctSeqs(S, n) ==
    {q \in SeqsUpTo(S, n) : \A i, j \in 1..Len(q) : i # j => q[i] # q[j]}

Min(a, b) == IF a < b THEN a ELSE b

\* Python's == on values: bool, int and float compare by number
NumericKinds == {"bool", "int", "float"}
PyEq(x, y) ==
    IF x.k \in NumericKinds /\ y.k \in NumericKinds THEN x.n = y.n ELSE x = y

\* x in seq
PyIn(x, seq) == \E i \in 1..Len(seq) : PyEq(x, seq[i])

\* isinstance(value, cls) for the classes of type_mapping: bool is a subclass of int
IsInstance(value, cls) == value.k = cls \/ (cls = "int" /\ value.k = "bool")

RECURSIVE Digits(_)
Digits(i) ==
    LET last == <<"0", "1", "2", "3", "4", "5", "6", "7", "8", "9">>[(i % 10) + 1]
    IN IF i < 10 THEN <<last>> ELSE Digits(i \div 10) \o <<last>>

IntStr(i) == IF i < 0 THEN <<"-">> \o Digits(0 - i) ELSE Digits(i)

RECURSIVE ListItemsStr(_, _)
ListItemsStr(items, i) ==
    IF i > Len(items) THEN <<>>
    ELSE (IF i > 1 THEN <<",", " ">> ELSE <<>>)
         \o <<"'", items[i], "'">> \o ListItemsStr(items, i + 1)

\* str(value), as characters (a dict's str is not modelled)
PyStr(value) ==
    CASE value.k = "str" -> value.s
      [] value.k = "int" -> IntStr(value.n)
      [] value.k = "float" -> IntStr(value.n) \o <<".", "0">>
      [] value.k = "bool" ->
            IF value.n = 1 THEN <<"T", "r", "u", "e">>
            ELSE <<"F", "a", "l", "s", "e">>
      [] value.k = "NoneType" -> <<"N", "o", "n", "e">>
      [] value.k = "list" -> <<"[">> \o ListItemsStr(value.s, 1) \o <<"]">>

\* keyword in value_str
IsSubstring(keyword, value_str) ==
    \E i \in 0..(Len(value_str) - Len(keyword)) :
        SubSeq(value_str, i + 1, i + Len(keyword)) = keyword

\* field_path.split('.'): the segments, each a string
RECURSIVE SplitFrom(_, _, _)
SplitFrom(field_path, i, cur) ==
    IF i > Len(field_path) THEN <<cur>>
    ELSE IF field_path[i] = "." THEN <<cur>> \o SplitFrom(field_path, i + 1, "")
    ELSE SplitFrom(field_path, i + 1, cur \o field_path[i])

Split(field_path) == SplitFrom(field_path, 1, "")

-----------------------------------------------------------------------------
(* MongoValidator._get_nested_value and _validate_field_existence *)

RECURSIVE NestedWalk(_, _, _)
NestedWalk(value, parts, i) ==
    IF i > Len(parts) THEN value
    ELSE IF value.k # "dict" \/ parts[i] \notin DOMAIN value.d THEN None
    ELSE NestedWalk(value.d[parts[i]], parts, i + 1)

GetNestedValue(doc, field_path) == NestedWalk(doc, Split(field_path), 1)

RECURSIVE ExistenceWalk(_, _, _)
ExistenceWalk(current, parts, i) ==
    IF i > Len(parts) THEN TRUE
    ELSE IF current.k # "dict" \/ parts[i] \notin DOMAIN current.d THEN FALSE
    ELSE ExistenceWalk(current.d[parts[i]], parts, i + 1)

ValidateFieldExistence(doc, field_path) == ExistenceWalk(doc, Split(field_path), 1)

-----------------------------------------------------------------------------
(* Error messages: the parts each f-string interpolates.  text holds the   *)
(* characters a message shows for a value or keyword, num and num2 its     *)
(* numbers, allowed the list it prints.                                    *)

Err(kind, collection, doc_id, field, text, num, num2, allowed) ==
    [kind |-> kind, collection |-> collection, doc_id |-> doc_id, field |-> field,
     text |-> text, num |-> num, num2 |-> num2, allowed |-> allowed]

\* what f"...{{value}}..." and f"...{{keyword}}..." put in the message:
\* doubled braces are literal braces, nothing is interpolated
ValuePlaceholder == <<"{", "v", "a", "l", "u", "e", "}">>
KeywordPlaceholder == <<"{", "k", "e", "y", "w", "o", "r", "d", "}">>

-----------------------------------------------------------------------------
(* MongoValidator._validate_categories *)

CategoryError(doc_id, field, value, allowed_values) ==
    Err("invalid_category", "", doc_id, field, ValuePlaceholder, 0, 0, allowed_values)

RECURSIVE CategoriesFrom(_, _, _, _, _)
CategoriesFrom(doc, doc_id, items, i, errs) ==
    IF i > Len(items) THEN errs
    ELSE LET field == items[i][1]
             allowed_values == items[i][2]
             value == GetNestedValue(doc, field)
         IN CategoriesFrom(doc, doc_id, items, i + 1,
                IF value # None /\ ~PyIn(value, allowed_values)
                THEN Append(errs, CategoryError(doc_id, field, value, allowed_values))
                ELSE errs)

ValidateCategories(doc, doc_id, rls, errs) ==
    CategoriesFrom(doc, doc_id, Get(rls, "categories", <<>>), 1, errs)

-----------------------------------------------------------------------------
(* MongoValidator._validate_numeric_ranges *)

\* float('-inf'), float('inf') and the numbers of a rule, in one order
NegInf == [inf |-> -1, n |-> 0]
PosInf == [inf |-> 1, n |-> 0]
Num(i) == [inf |-> 0, n |-> i]
Less(x, y) == IF x.inf # y.inf THEN x.inf < y.inf ELSE x.inf = 0 /\ x.n < y.n

RangeMin(range_rules) ==
    IF "min" \in DOMAIN range_rules THEN Num(range_rules["min"]) ELSE NegInf
RangeMax(range_rules) ==
    IF "max" \in DOMAIN range_rules THEN Num(range_rules["max"]) ELSE PosInf

\* the lower bound taken as exclusive: value <= min
BelowMinInclusive(value, range_rules) ==
    ~Less(RangeMin(range_rules), Num(value.n))

BelowMin(value, range_rules) == Less(Num(value.n), RangeMin(range_rules))
AboveMax(value, range_rules) == Less(RangeMax(range_rules), Num(value.n))

RangeErrors(doc_id, field, value, range_rules) ==
    IF ~(IsInstance(value, "int") \/ IsInstance(value, "float"))
    THEN <<Err("not_numeric", "", doc_id, field, <<>>, 0, 0, <<>>)>>
    ELSE (IF BelowMin(value, range_rules)
          THEN <<Err("below_min", "", doc_id, field, ValuePlaceholder,
                     range_rules["min"], 0, <<>>)>>
          ELSE <<>>)
         \o
         (IF AboveMax(value, range_rules)
          THEN <<Err("above_max", "", doc_id, field, ValuePlaceholder,
                     range_rules["max"], 0, <<>>)>>
          ELSE <<>>)

RECURSIVE NumericRangesFrom(_, _, _, _, _)
NumericRangesFrom(doc, doc_id, items, i, errs) ==
    IF i > Len(items) THEN errs
    ELSE LET field == items[i][1]
             range_rules == items[i][2]
             value == GetNestedValue(doc, field)
         IN NumericRangesFrom(doc, doc_id, items, i + 1,
                IF value # None
                THEN errs \o RangeErrors(doc_id, field, value, range_rules)
                ELSE errs)

ValidateNumericRanges(doc, doc_id, rls, errs) ==
    NumericRangesFrom(doc, doc_id, Get(rls, "numeric_ranges", <<>>), 1, errs)

-----------------------------------------------------------------------------
(* MongoValidator._validate_keywords *)

\* the keyword looked for at the start of the value only
KeywordMissingAtStart(keyword, value_str) ==
    Len(keyword) > Len(value_str) \/ SubSeq(value_str, 1, Len(keyword)) # keyword

KeywordMissing(keyword, value_str) == ~IsSubstring(keyword, value_str)

RECURSIVE KeywordErrors(_, _, _, _, _)
KeywordErrors(doc_id, field, value_str, expected_keywords, j) ==
    IF j > Len(expected_keywords) THEN <<>>
    ELSE (IF KeywordMissing(expected_keywords[j], value_str)
          THEN <<Err("keyword", "", doc_id, field, KeywordPlaceholder, 0, 0, <<>>)>>
          ELSE <<>>)
         \o KeywordErrors(doc_id, field, value_str, expected_keywords, j + 1)

RECURSIVE KeywordsFrom(_, _, _, _, _)
KeywordsFrom(doc, doc_id, items, i, errs) ==
    IF i > Len(items) THEN errs
    ELSE LET field == items[i][1]
             expected_keywords == items[i][2]
             value == GetNestedValue(doc, field)
         IN KeywordsFrom(doc, doc_id, items, i + 1,
                IF value # None
                THEN errs \o KeywordErrors(doc_id, field, PyStr(value),
                                           expected_keywords, 1)
                ELSE errs)

ValidateKeywords(doc, doc_id, rls, errs) ==
    KeywordsFrom(doc, doc_id, Get(rls, "keywords", <<>>), 1, errs)

-----------------------------------------------------------------------------
(* MongoValidator._validate_data_type and the per-document body of         *)
(* validate_collection                                                     *)

TypeMapping ==
    [string |-> "str", int |-> "int", float |-> "float", bool |-> "bool",
     list |-> "list", dict |-> "dict"]

ValidateDataType(value, expected_type) == IsInstance(value, TypeMapping[expected_type])

\* doc_id = str(doc.get('_id', 'Unknown'))
DocId(doc) ==
    PyStr(Get(doc.d, "_id", VStr(<<"U", "n", "k", "n", "o", "w", "n">>)))

\* presence decided by the resolver's value instead of the key's existence
FieldExistsByValue(doc, field) == GetNestedValue(doc, field) # None

FieldExists(doc, field) == ValidateFieldExistence(doc, field)

RECURSIVE RequiredFieldsFrom(_, _, _, _, _)
RequiredFieldsFrom(doc, doc_id, fields, i, errs) ==
    IF i > Len(fields) THEN errs
    ELSE RequiredFieldsFrom(doc, doc_id, fields, i + 1,
            IF ~FieldExists(doc, fields[i])
            THEN Append(errs, Err("missing_required", "", doc_id, fields[i],
                                  <<>>, 0, 0, <<>>))
            ELSE errs)

ValidateRequiredFields(doc, doc_id, rls, errs) ==
    RequiredFieldsFrom(doc, doc_id, Get(rls, "required_fields", <<>>), 1, errs)

RECURSIVE DataTypesFrom(_, _, _, _, _)
DataTypesFrom(doc, doc_id, items, i, errs) ==
    IF i > Len(items) THEN errs
    ELSE LET field == items[i][1]
             expected_type == items[i][2]
             value == GetNestedValue(doc, field)
         IN DataTypesFrom(doc, doc_id, items, i + 1,
                IF value # None /\ ~ValidateDataType(value, expected_type)
                THEN Append(errs, Err("invalid_type", "", doc_id, field,
                                      <<>>, 0, 0, <<>>))
                ELSE errs)

ValidateDataTypes(doc, doc_id, rls, errs) ==
    DataTypesFrom(doc, doc_id, Get(rls, "data_types", <<>>), 1, errs)

\* the body with the numeric ranges checked before the categories
ValidateDocumentRangesFirst(doc, rls, errs) ==
    LET doc_id == DocId(doc)
        e1 == ValidateRequiredFields(doc, doc_id, rls, errs)
        e2 == ValidateDataTypes(doc, doc_id, rls, e1)
        e3 == ValidateNumericRanges(doc, doc_id, rls, e2)
        e4 == ValidateCategories(doc, doc_id, rls, e3)
    IN ValidateKeywords(doc, doc_id, rls, e4)

\* the body of "for doc in sample"
ValidateDocument(doc, rls, errs) ==
    LET doc_id == DocId(doc)
        e1 == ValidateRequiredFields(doc, doc_id, rls, errs)
        e2 == ValidateDataTypes(doc, doc_id, rls, e1)
        e3 == ValidateCategories(doc, doc_id, rls, e2)
        e4 == ValidateNumericRanges(doc, doc_id, rls, e3)
    IN ValidateKeywords(doc, doc_id, rls, e4)

-----------------------------------------------------------------------------
(* MongoValidator.validate_collection and run_validations, one action per  *)
(* data-source call and per sampled document.  The run is single-threaded. *)

SampleCap == 1000

NoArgs == [doc |-> VDict(EmptyMap), field_path |-> <<>>, rules |-> EmptyMap]
NoRet == [fn |-> "", value |-> None, exists |-> FALSE, errors |-> <<>>]

collection_name == rules[idx][1]
collection_rules == rules[idx][2]

\* collection.find().limit(n): limit(0) is no limit
Limit(docs, n) == IF n = 0 THEN docs ELSE SubSeq(docs, 1, Min(n, Len(docs)))

ExistenceError(name) == Err("not_exist", name, <<>>, <<>>, <<>>, 0, 0, <<>>)

\* lines 110-111: the document-count check
CountCheck(count, rls, errs) ==
    IF count < Get(rls, "expected_count", 0)
    THEN Append(errs, Err("count", "", <<>>, <<>>, <<>>,
                          rls["expected_count"], count, <<>>))
    ELSE errs

\* a single error not counted as a failure
StatusMoreThanOne(errs) == IF Len(errs) > 1 THEN "Failed" ELSE "Passed"

Status(errs) == IF errs # <<>> THEN "Failed" ELSE "Passed"

CountStatus(res, status) ==
    Cardinality({i \in 1..Len(res) : res[i].status = status})

\* for collection_name, rules in self.rules['collections'].items(): the next item
LoopNext ==
    /\ pc = "loop"
    /\ idx < Len(rules)
    /\ idx' = idx + 1
    /\ errors' = <<>>
    /\ pc' = "exists"
    /\ UNCHANGED <<rules, db, actual_count, sample_size, sample, results,
                   summary, calls, args, ret>>

\* collection_name not in self.db.list_collection_names()
CheckExistence ==
    /\ pc = "exists"
    /\ calls' = Append(calls, <<collection_name, "list_collection_names">>)
    /\ IF collection_name \notin DOMAIN db
       THEN /\ results' = Append(results,
                   [collection |-> collection_name, status |-> "Failed",
                    errors |-> Append(errors, ExistenceError(collection_name))])
            /\ pc' = "loop"
       ELSE /\ pc' = "count"
            /\ UNCHANGED results
    /\ UNCHANGED <<rules, db, idx, errors, actual_count, sample_size, sample,
                   summary, args, ret>>

\* collection.count_documents({}) and the count check
CountDocuments ==
    /\ pc = "count"
    /\ calls' = Append(calls, <<collection_name, "count_documents">>)
    /\ actual_count' = Len(db[collection_name])
    /\ errors' = CountCheck(Len(db[collection_name]), collection_rules, errors)
    /\ pc' = "find"
    /\ UNCHANGED <<rules, db, idx, sample_size, sample, results, summary, args, ret>>

\* sample_size = min(1000, actual_count); collection.find().limit(sample_size)
Find ==
    /\ pc = "find"
    /\ calls' = Append(calls, <<collection_name, "find">>)
    /\ sample_size' = Min(SampleCap, actual_count)
    /\ sample' = Limit(db[collection_name], Min(SampleCap, actual_count))
    /\ pc' = "docs"
    /\ UNCHANGED <<rules, db, idx, errors, actual_count, results, summary, args, ret>>

\* one iteration of "for doc in sample"
ValidateDoc ==
    /\ pc = "docs"
    /\ sample # <<>>
    /\ errors' = ValidateDocument(Head(sample), collection_rules, errors)
    /\ sample' = Tail(sample)
    /\ UNCHANGED <<rules, db, pc, idx, actual_count, sample_size, results,
                   summary, calls, args, ret>>

\* the cursor is exhausted: validate_collection returns, results.append(result)
ReturnResult ==
    /\ pc = "docs"
    /\ sample = <<>>
    /\ results' = Append(results,
            [collection |-> collection_name, status |-> Status(errors),
             errors |-> errors, sample_size |-> sample_size,
             total_documents |-> actual_count])
    /\ pc' = "loop"
    /\ UNCHANGED <<rules, db, idx, errors, actual_count, sample_size, sample,
                   summary, calls, args, ret>>

\* the loop is over: the summary is built and returned (execution_time, the
\* wall-clock duration, is left out)
ReturnSummary ==
    /\ pc = "loop"
    /\ idx = Len(rules)
    /\ summary' = [total_collections |-> Len(results),
                   passed_collections |-> CountStatus(results, "Passed"),
                   failed_collections |-> CountStatus(results, "Failed"),
                   results |-> results]
    /\ pc' = "returned"
    /\ UNCHANGED <<rules, db, idx, errors, actual_count, sample_size, sample,
                   results, calls, args, ret>>

\* a data-source call raises (pymongo's connection failure): nothing in
\* validate_collection or run_validations catches it, the run ends with it
DataSourceError ==
    /\ pc \in {"exists", "count", "find"}
    /\ pc' = "raised"
    /\ UNCHANGED <<rules, db, idx, errors, actual_count, sample_size, sample,
                   results, summary, calls, args, ret>>

Next ==
    \/ LoopNext
    \/ CheckExistence
    \/ CountDocuments
    \/ Find
    \/ ValidateDoc
    \/ ReturnResult
    \/ ReturnSummary
    \/ DataSourceError

-----------------------------------------------------------------------------
(* The inputs of a run: a rule set and the contents of the data source.    *)

MaxColls == 2
MaxDocs == 2

FieldA == <<"a">>
FieldB == <<"b">>

AllNames == <<"users", "orders", "items", "logs", "events">>
Names == {AllNames[i] : i \in 1..MaxColls}

\* the i-th document of a collection gets the _id str(i)
WithIds(maps) == [i \in 1..Len(maps) |-> VDict(maps[i] @@ ("_id" :> VStr(IntStr(i))))]

\* rule sets of several collections with one rule each
SimpleFragments == {[expected_count |-> 1], [required_fields |-> <<FieldA>>]}
SimpleContents == {<<>>, WithIds(<<("b" :> VInt(1))>>)}
SimpleRuleSets ==
    {[i \in 1..Len(ns) |-> <<ns[i], fs[i]>>] :
        <<ns, fs>> \in {p \in DistinctSeqs(Names, MaxColls)
                             \X SeqsUpTo(SimpleFragments, MaxColls) :
                        Len(p[1]) = Len(p[2])}}
SimpleDatabases == PartialMaps(Names, SimpleContents)

\* one collection with up to one rule of every kind
RichFragments ==
    {f1 @@ f2 @@ f3 @@ f4 @@ f5 @@ f6 :
        <<f1, f2, f3, f4, f5, f6>> \in
            {EmptyMap, [expected_count |-> 3]}
         \X {EmptyMap, [required_fields |-> <<FieldB, FieldA>>]}
         \X {EmptyMap, [data_types |-> <<<<FieldB, "string">>, <<FieldA, "string">>>>]}
         \X {EmptyMap, [categories |-> <<<<FieldA, <<VInt(0)>>>>,
                                         <<FieldB, <<VStr(<<"y">>)>>>>>>]}
         \X {EmptyMap, [numeric_ranges |-> <<<<FieldB, [max |-> 0]>>,
                                             <<FieldA, [min |-> 1, max |-> -1]>>>>]}
         \X {EmptyMap, [keywords |-> <<<<FieldB, <<<<"y">>, <<"x">>>>>>,
                                       <<FieldA, <<<<"x">>>>>>>>]}}
RichMaps ==
    {m1 @@ m2 : <<m1, m2>> \in {EmptyMap, "a" :> VInt(0), "a" :> VStr(<<"x">>)}
                            \X {EmptyMap, "b" :> VStr(<<"x">>)}}
RichContents == {WithIds(maps) : maps \in SeqsUpTo(RichMaps, MaxDocs)}
RichDatabases == PartialMaps({"users"}, RichContents)

InitProgram ==
    /\ \/ /\ rules \in SimpleRuleSets
          /\ db \in SimpleDatabases
       \/ /\ rules \in {<<<<"users", f>>>> : f \in RichFragments}
          /\ db \in RichDatabases
    /\ pc = "loop"
    /\ idx = 0
    /\ errors = <<>>
    /\ actual_count = 0
    /\ sample_size = 0
    /\ sample = <<>>
    /\ results = <<>>
    /\ summary = EmptyMap
    /\ calls = <<>>
    /\ args = NoArgs
    /\ ret = NoRet

Init == InitProgram

Spec == Init /\ [][Next]_vars

-----------------------------------------------------------------------------
(* Direct calls of one function on drawn arguments: the program itself is  *)
(* idle (pc = "call"), ret.fn names the function once it has returned.     *)

CallGetNestedValue ==
    /\ pc = "call"
    /\ ret.fn = ""
    /\ ret' = [ret EXCEPT !.fn = "_get_nested_value",
                          !.value = GetNestedValue(args.doc, args.field_path)]
    /\ UNCHANGED <<progVars, args>>

CallValidateFieldExistence ==
    /\ pc = "call"
    /\ ret.fn = ""
    /\ ret' = [ret EXCEPT !.fn = "_validate_field_existence",
                          !.exists = ValidateFieldExistence(args.doc, args.field_path)]
    /\ UNCHANGED <<progVars, args>>

\* the body of "for doc in sample" on one document, from an empty error list
CallValidateDocument ==
    /\ pc = "call"
    /\ ret.fn = ""
    /\ ret' = [ret EXCEPT !.fn = "validate_document",
                          !.errors = ValidateDocument(args.doc, args.rules, <<>>)]
    /\ UNCHANGED <<progVars, args>>

NextResolve == CallGetNestedValue \/ CallValidateFieldExistence

NextDocument == CallValidateDocument

IdleProgram ==
    /\ rules = <<>>
    /\ db = EmptyMap
    /\ pc = "call"
    /\ idx = 0
    /\ errors = <<>>
    /\ actual_count = 0
    /\ sample_size = 0
    /\ sample = <<>>
    /\ results = <<>>
    /\ summary = EmptyMap
    /\ calls = <<>>
    /\ ret = NoRet

MaxPathLen == 3
MaxRequired == 2
MaxRules == 2
MaxValue == 3
MaxAllowed == 2
MaxKeywords == 2

Document(map) == VDict(map @@ ("_id" :> VStr(<<"x", "1">>)))

\* the sequences of at most n items <<field, t>>, t in T, on distinct fields
ItemSeqs(fields, T, n) ==
    {[i \in 1..Len(fs) |-> <<fs[i], ts[i]>>] :
        <<fs, ts>> \in {p \in DistinctSeqs(fields, n) \X SeqsUpTo(T, n) :
                        Len(p[1]) = Len(p[2])}}

FieldAB == <<"a", ".", "b">>
Fields == {FieldA, FieldB, FieldAB}

\* documents of two levels, with null values and with the empty key
Leaves == {None, VInt(1)}
SubDicts == {VDict(m) : m \in PartialMaps({"b", ""}, Leaves)}
NestedDocs == {Document(m) : m \in PartialMaps({"a", ""}, Leaves \cup SubDicts)}
Paths == SeqsUpTo({"a", "b", "."}, MaxPathLen)

InitResolve ==
    /\ IdleProgram
    /\ args \in {[doc |-> d, field_path |-> p, rules |-> EmptyMap] :
                    d \in NestedDocs, p \in Paths}

SpecResolve == InitResolve /\ [][NextResolve]_vars

RequiredPaths == {FieldA, FieldB, FieldAB, <<"a", ".", "a">>}

InitRequired ==
    /\ IdleProgram
    /\ args \in {[doc |-> d, field_path |-> <<>>, rules |-> [required_fields |-> fs]] :
                    d \in NestedDocs, fs \in DistinctSeqs(RequiredPaths, MaxRequired)}

SpecRequired == InitRequired /\ [][NextDocument]_vars

\* one value of every kind under "a", alone or beside "b"
KindValues ==
    {None, VBool(TRUE), VInt(1), VFloat(1), VStr(<<"a">>), VList(<<"a">>),
     VDict(EmptyMap), VDict("b" :> VBool(FALSE)), VDict("b" :> VStr(<<"a">>))}
FlatDocs(values) ==
    {Document(m1 @@ m2) :
        <<m1, m2>> \in ({EmptyMap} \cup {"a" :> v : v \in values})
                    \X {EmptyMap, "b" :> VInt(1)}}
TypeTags == {"string", "int", "float", "bool", "list", "dict"}

InitTypes ==
    /\ IdleProgram
    /\ args \in {[doc |-> d, field_path |-> <<>>, rules |-> [data_types |-> items]] :
                    d \in FlatDocs(KindValues), items \in ItemSeqs(Fields, TypeTags, MaxRules)}

SpecTypes == InitTypes /\ [][NextDocument]_vars

RangeValues ==
    {VInt(i) : i \in -1..MaxValue}
    \cup {None, VFloat(1), VBool(TRUE), VStr(<<"1">>), VDict("b" :> VInt(1))}
RangeRules == PartialMaps({"min", "max"}, {0, 2})

InitRanges ==
    /\ IdleProgram
    /\ args \in {[doc |-> d, field_path |-> <<>>, rules |-> [numeric_ranges |-> items]] :
                    d \in FlatDocs(RangeValues), items \in ItemSeqs(Fields, RangeRules, MaxRules)}

SpecRanges == InitRanges /\ [][NextDocument]_vars

CategoryValues ==
    {None, VStr(<<"r">>), VStr(<<"x">>), VInt(1), VInt(2), VBool(TRUE), VFloat(1),
     VList(<<"r">>)}
AllowedLists == SeqsUpTo({VStr(<<"r">>), VInt(1)}, MaxAllowed)

InitCategories ==
    /\ IdleProgram
    /\ args \in {[doc |-> d, field_path |-> <<>>, rules |-> [categories |-> items]] :
                    d \in FlatDocs(CategoryValues),
                    items \in ItemSeqs({FieldA, FieldB}, AllowedLists, MaxRules)}

SpecCategories == InitCategories /\ [][NextDocument]_vars

KeywordValues ==
    {None, VStr(<<>>), VStr(<<"a">>), VStr(<<"b", "a">>), VStr(<<"a", "b", "a">>),
     VInt(1), VInt(10), VBool(TRUE), VFloat(1), VList(<<"a", "b">>)}
Keywords == {<<"a">>, <<"b">>, <<"a", "b">>, <<"1">>}
KeywordLists == DistinctSeqs(Keywords, MaxKeywords)

InitKeywords ==
    /\ IdleProgram
    /\ args \in {[doc |-> d, field_path |-> <<>>, rules |-> [keywords |-> items]] :
                    d \in FlatDocs(KeywordValues),
                    items \in ItemSeqs({FieldA, FieldB}, KeywordLists, MaxRules)}

SpecKeywords == InitKeywords /\ [][NextDocument]_vars

-----------------------------------------------------------------------------
(* Properties of validate_collection and run_validations *)

\* the i-th result belongs to the i-th declared collection
ResultName(i) == rules[i][1]
ResultRules(i) == rules[i][2]
Exists(i) == ResultName(i) \in DOMAIN db
ResultIndexes == 1..Len(results)

\* C1: a result's status is Failed iff its error list is non-empty, or the
\* collection is not among the data source's collection names, or the actual
\* document count is below expected_count (0 when not declared); otherwise
\* it is Passed.
C1_StatusFailedIff ==
    \A i \in ResultIndexes :
        LET r == results[i]
            failing == \/ r.errors # <<>>
                       \/ ~Exists(i)
                       \/ /\ Exists(i)
                          /\ Len(db[ResultName(i)])
                                < Get(ResultRules(i), "expected_count", 0)
        IN /\ r.collection = ResultName(i)
           /\ r.status \in {"Failed", "Passed"}
           /\ (r.status = "Failed") <=> failing

\* a collection that fails on its count alone, after one that passed
C1_Witness ==
    \E i, j \in ResultIndexes :
        /\ Exists(i)
        /\ Len(db[ResultName(i)]) < Get(ResultRules(i), "expected_count", 0)
        /\ Len(results[i].errors) = 1
        /\ results[i].status = "Failed"
        /\ results[j].status = "Passed"

CallsOn(name, op) == {c \in 1..Len(calls) : calls[c] = <<name, op>>}

\* C2: for a collection absent from the data source the result has status
\* Failed, exactly one error (the existence error) and sample_size = 0, and
\* no document count, fetch or rule validator was run for it.
C2_AbsentCollectionResult ==
    \A i \in ResultIndexes :
        ~Exists(i) =>
            LET r == results[i]
            IN /\ r.status = "Failed"
               /\ Len(r.errors) = 1
               /\ r.errors[1].kind = "not_exist"
               /\ CallsOn(ResultName(i), "count_documents") = {}
               /\ CallsOn(ResultName(i), "find") = {}
               /\ "sample_size" \in DOMAIN r
               /\ r.sample_size = 0

\* C3: a run, once over, has returned one result per declared collection, in
\* declaration order, whatever failed on the way (a Failed status or a
\* data-source failure), and passed + failed = total = the number declared.
C3_EveryCollectionReported ==
    pc \in {"returned", "raised"} =>
        /\ pc = "returned"
        /\ Len(summary.results) = Len(rules)
        /\ \A i \in 1..Len(rules) : summary.results[i].collection = rules[i][1]
        /\ summary.total_collections = Len(rules)
        /\ summary.passed_collections + summary.failed_collections
              = summary.total_collections

KindRank(kind) ==
    CASE kind = "count" -> 0
      [] kind = "missing_required" -> 1
      [] kind = "invalid_type" -> 2
      [] kind = "invalid_category" -> 3
      [] kind \in {"not_numeric", "below_min", "above_max"} -> 4
      [] kind = "keyword" -> 5

\* where the field of an error is declared in its rule kind
FragmentFields(rls, kind) ==
    LET key == CASE kind = "missing_required" -> "required_fields"
                 [] kind = "invalid_type" -> "data_types"
                 [] kind = "invalid_category" -> "categories"
                 [] kind \in {"not_numeric", "below_min", "above_max"} -> "numeric_ranges"
                 [] kind = "keyword" -> "keywords"
        items == Get(rls, key, <<>>)
    IN IF key = "required_fields" THEN items
       ELSE [x \in 1..Len(items) |-> items[x][1]]

DeclPos(rls, e) ==
    LET fields == FragmentFields(rls, e.kind)
    IN CHOOSE x \in 1..Len(fields) : fields[x] = e.field

DocPos(docs, e) == CHOOSE x \in 1..Len(docs) : DocId(docs[x]) = e.doc_id

ErrorKey(docs, rls, e) ==
    <<DocPos(docs, e), KindRank(e.kind), DeclPos(rls, e),
      IF e.kind = "above_max" THEN 1 ELSE 0>>

LexLeq(x, y) ==
    \/ x = y
    \/ \E m \in 1..Len(x) : /\ \A l \in 1..(m - 1) : x[l] = y[l]
                            /\ x[m] < y[m]

\* C10: in the result of an existing collection the count-mismatch error, if
\* any, is first and every sampled document is still validated; the other
\* errors follow in document order, within a document in the order required
\* fields, data types, categories, numeric ranges, keywords, and within a
\* rule kind in declaration order.
C10_ErrorOrder ==
    \A i \in ResultIndexes :
        Exists(i) =>
            LET errs == results[i].errors
                docs == db[ResultName(i)]
                rls == ResultRules(i)
                counted == {x \in 1..Len(errs) : errs[x].kind = "count"}
                first == IF counted = {} THEN 1 ELSE 2
            IN /\ counted \subseteq {1}
               /\ \A x, y \in first..Len(errs) :
                     x < y => LexLeq(ErrorKey(docs, rls, errs[x]),
                                     ErrorKey(docs, rls, errs[y]))
               /\ \A x \in 1..Len(docs) :
                     \A f \in 1..Len(Get(rls, "required_fields", <<>>)) :
                        LET field == rls["required_fields"][f]
                        IN Head(field) \notin DOMAIN docs[x].d =>
                              \E z \in 1..Len(errs) :
                                  /\ errs[z].kind = "missing_required"
                                  /\ errs[z].doc_id = DocId(docs[x])
                                  /\ errs[z].field = field

\* a count mismatch followed by errors of two documents, of four rule kinds
C10_Witness ==
    \E i \in ResultIndexes :
        /\ Exists(i)
        /\ LET errs == results[i].errors
           IN /\ Len(errs) >= 5
              /\ errs[1].kind = "count"
              /\ Cardinality({errs[x].doc_id : x \in 2..Len(errs)}) = 2
              /\ Cardinality({KindRank(errs[x].kind) : x \in 2..Len(errs)}) >= 4

-----------------------------------------------------------------------------
(* Properties of the resolver and of the rule validators.  The segments of *)
(* a path are stated here from the positions of its dots, not by Split.    *)

DotPositions(p) == {i \in 1..Len(p) : p[i] = "."}
SegmentCount(p) == Cardinality(DotPositions(p)) + 1

\* the position of the j-th dot; 0 before the first segment, Len(p) + 1 after the last
Cut(p, j) ==
    IF j = 0 THEN 0
    ELSE IF j = SegmentCount(p) THEN Len(p) + 1
    ELSE CHOOSE i \in DotPositions(p) :
            Cardinality({x \in DotPositions(p) : x <= i}) = j

SegmentChars(p, j) == SubSeq(p, Cut(p, j - 1) + 1, Cut(p, j) - 1)

RECURSIVE AsString(_)
AsString(chars) == IF chars = <<>> THEN "" ELSE Head(chars) \o AsString(Tail(chars))

Segment(p, j) == AsString(SegmentChars(p, j))

HasEmptySegment(p) == \E j \in 1..SegmentCount(p) : SegmentChars(p, j) = <<>>

\* following the segments of p from v: every one, in turn, a key of the
\* mapping reached so far
RECURSIVE Addressed(_, _, _)
Addressed(v, p, j) ==
    IF j > SegmentCount(p) THEN [found |-> TRUE, value |-> v]
    ELSE IF v.k = "dict" /\ Segment(p, j) \in DOMAIN v.d
    THEN Addressed(v.d[Segment(p, j)], p, j + 1)
    ELSE [found |-> FALSE, value |-> None]

\* C9: path resolution returns the addressed value only when every segment,
\* in turn, is a key of a mapping reached so far, and not found otherwise; a
\* path with an empty segment resolves to not found whatever the document
\* contains.
C9_EmptySegmentNotFound ==
    ret.fn = "_get_nested_value" =>
        LET a == Addressed(args.doc, args.field_path, 1)
        IN /\ ret.value = IF a.found THEN a.value ELSE None
           /\ HasEmptySegment(args.field_path) => ret.value = None

ErrorsOf(errs, kind, doc_id, field) ==
    {x \in 1..Len(errs) :
        errs[x].kind = kind /\ errs[x].doc_id = doc_id /\ errs[x].field = field}

Validated == ret.fn = "validate_document"
ArgId == <<"x", "1">>

\* C4 as stated: for every declared required path, exactly one error naming
\* the document and the path when _get_nested_value reports not found (a
\* missing key, or a key whose value is null), and none when it returns a
\* present value.
C4_RequiredByResolver ==
    Validated =>
        \A j \in 1..Len(args.rules["required_fields"]) :
            LET field == args.rules["required_fields"][j]
            IN Cardinality(ErrorsOf(ret.errors, "missing_required", ArgId, field))
                 = IF GetNestedValue(args.doc, field) = None THEN 1 ELSE 0

\* C4, amended: for every declared required path, exactly one error naming
\* the document and the path when some segment of the path is not a key of
\* the mapping reached so far, and none when every segment is: a key whose
\* value is null exists, so it yields no error, although _get_nested_value
\* returns None for it.
C4_RequiredByKeyExistence ==
    Validated =>
        \A j \in 1..Len(args.rules["required_fields"]) :
            LET field == args.rules["required_fields"][j]
            IN Cardinality(ErrorsOf(ret.errors, "missing_required", ArgId, field))
                 = IF Addressed(args.doc, field, 1).found THEN 0 ELSE 1

\* a null-valued key declared required beside a missing one: an error for
\* the missing one only
C4_Witness ==
    /\ Validated
    /\ \E i, j \in 1..Len(args.rules["required_fields"]) :
          LET present == args.rules["required_fields"][i]
              missing == args.rules["required_fields"][j]
          IN /\ Addressed(args.doc, present, 1) = [found |-> TRUE, value |-> None]
             /\ ~Addressed(args.doc, missing, 1).found
             /\ Len(ret.errors) = 1
             /\ ret.errors[1].field = missing

\* the one kind each type tag names
TagKind ==
    [string |-> "str", int |-> "int", float |-> "float", bool |-> "bool",
     list |-> "list", dict |-> "dict"]

\* C5: for every declared (path, type tag), exactly one error iff the path
\* resolves to a present value whose own kind is not the kind the tag names
\* (a bool does not satisfy int, an int does not satisfy float), and no
\* error when the path resolves to not found.
C5_TypeKindsDisjoint ==
    Validated =>
        \A j \in 1..Len(args.rules["data_types"]) :
            LET field == args.rules["data_types"][j][1]
                tag == args.rules["data_types"][j][2]
                value == GetNestedValue(args.doc, field)
            IN Cardinality(ErrorsOf(ret.errors, "invalid_type", ArgId, field))
                 = IF value # None /\ value.k # TagKind[tag] THEN 1 ELSE 0

\* C6: for every present numeric value v and range rule on a field, there is
\* a below-minimum error iff min is given and v < min, and an above-maximum
\* error iff max is given and v > max, each decided on its own.
C6_RangeErrors ==
    Validated =>
        \A j \in 1..Len(args.rules["numeric_ranges"]) :
            LET field == args.rules["numeric_ranges"][j][1]
                rr == args.rules["numeric_ranges"][j][2]
                v == GetNestedValue(args.doc, field)
            IN v.k \in NumericKinds =>
                /\ Cardinality(ErrorsOf(ret.errors, "below_min", ArgId, field))
                     = IF "min" \in DOMAIN rr /\ v.n < rr["min"] THEN 1 ELSE 0
                /\ Cardinality(ErrorsOf(ret.errors, "above_max", ArgId, field))
                     = IF "max" \in DOMAIN rr /\ v.n > rr["max"] THEN 1 ELSE 0

\* min > max gives both errors for one field, while a value equal to its
\* bound in the same document gives none
C6_Witness ==
    /\ Validated
    /\ \E i, j \in 1..Len(args.rules["numeric_ranges"]) :
          LET both == args.rules["numeric_ranges"][i]
              edge == args.rules["numeric_ranges"][j]
              v == GetNestedValue(args.doc, edge[1])
          IN /\ ErrorsOf(ret.errors, "below_min", ArgId, both[1]) # {}
             /\ ErrorsOf(ret.errors, "above_max", ArgId, both[1]) # {}
             /\ v.k = "int"
             /\ "min" \in DOMAIN edge[2]
             /\ v.n = edge[2]["min"]
             /\ ErrorsOf(ret.errors, "below_min", ArgId, edge[1]) = {}

\* C7: for every declared (path, allowed set), exactly one error when the
\* path resolves to a present value that is not in the allowed set, and that
\* error shows the value found and the allowed set; no error when the value
\* is a member or the path resolves to not found.
C7_CategoryErrorListsValue ==
    Validated =>
        \A j \in 1..Len(args.rules["categories"]) :
            LET field == args.rules["categories"][j][1]
                allowed == args.rules["categories"][j][2]
                value == GetNestedValue(args.doc, field)
                errs == ErrorsOf(ret.errors, "invalid_category", ArgId, field)
            IN IF value # None /\ ~PyIn(value, allowed)
               THEN /\ Cardinality(errs) = 1
                    /\ \A x \in errs : /\ ret.errors[x].text = PyStr(value)
                                       /\ ret.errors[x].allowed = allowed
               ELSE errs = {}

\* kw occurs in s
Occurs(kw, s) ==
    \E from \in 0..Len(s) : \E to \in from..Len(s) : SubSeq(s, from + 1, to) = kw

\* C8: for every declared (path, keywords), when the path resolves to a
\* present value with string form S the number of keyword errors for the
\* path is the number of keywords that do not occur in S, and when it
\* resolves to not found there is none.
C8_KeywordErrorCount ==
    Validated =>
        \A j \in 1..Len(args.rules["keywords"]) :
            LET field == args.rules["keywords"][j][1]
                K == args.rules["keywords"][j][2]
                value == GetNestedValue(args.doc, field)
            IN Cardinality(ErrorsOf(ret.errors, "keyword", ArgId, field))
                 = IF value = None THEN 0
                   ELSE Cardinality({x \in 1..Len(K) : ~Occurs(K[x], PyStr(value))})

\* two keywords on one field, one in the value's string form and one not:
\* one error
C8_Witness ==
    /\ Validated
    /\ \E j \in 1..Len(args.rules["keywords"]) :
          LET field == args.rules["keywords"][j][1]
              K == args.rules["keywords"][j][2]
              value == GetNestedValue(args.doc, field)
          IN /\ value # None
             /\ Len(K) = 2
             /\ Occurs(K[1], PyStr(value))
             /\ ~Occurs(K[2], PyStr(value))
             /\ Cardinality(ErrorsOf(ret.errors, "keyword", ArgId, field)) = 1

====
